---------------------------- MODULE Spec2Model ----------------------------
(***************************************************************************)
(* A model of plastimatch-api.py: the path resolution done by the request  *)
(* models (Register_Inputs.__init__, Inputs_convert.__init__), the         *)
(* POST /plastimatch_register handler, register() and convert().           *)
(*                                                                         *)
(* Strings are sequences of atoms.  An atom is a run of characters that    *)
(* the code never looks inside: "/" is the path separator, the others are  *)
(* names.  The substring test and the split of the resolver work on the    *)
(* atom sequence exactly as Python's work on the characters, because no    *)
(* concatenation of the other atoms spells "temp_data" or "registration".  *)
(*                                                                         *)
(* The source uses Dict, defaultdict and Inputs_register without importing *)
(* or defining them; the model reads them as typing.Dict,                  *)
(* collections.defaultdict and the class Register_Inputs of line 11.       *)
(***************************************************************************)
EXTENDS Integers, Sequences, FiniteSets, TLC

VARIABLES
    value,      \* SpecPath: the string handed to the request model
    resolved,   \* SpecPath: the paths the resolver returned, in order
    req,        \* per request: the arguments of the call
    pc,         \* per request: the position of its handler
    loc,        \* per request: the local variables of register / convert
    dirs,       \* the directories out_dir.mkdir has created
    files,      \* the files written: path string -> its text and who wrote it
    procs,      \* the child processes spawned, in order
    printed     \* what print() has written, in order

vars == <<value, resolved, req, pc, loc, dirs, files, procs, printed>>

---------------------------------------------------------------------------
(* Bounds *)

\* longest path string a client supplies, in atoms
MaxLen == 5
\* how often a client feeds a resolved path back into the resolver
MaxResolve == 2
\* most items in the global mapping of a direct register call
MaxGlobalKeys == 4
\* most items in one stage mapping of a direct register call
MaxStageKeys == 2
\* most stage mappings in a direct register call
MaxStages == 2
\* most keys a client of POST /plastimatch_register leaves out
MaxMissing == 1

---------------------------------------------------------------------------
(* Strings and sequences *)

SEP == "/"

RECURSIVE Flatten(_)
Flatten(ss) == IF ss = <<>> THEN <<>> ELSE Head(ss) \o Flatten(Tail(ss))

\* the index of the first occurrence of sub in s, 0 when there is none
\* (Python's str.find, 1-based)
Find(s, sub) ==
    LET starts == { i \in 1..(Len(s) - Len(sub) + 1) :
                      SubSeq(s, i, i + Len(sub) - 1) = sub }
    IN IF starts = {} THEN 0
       ELSE CHOOSE i \in starts : \A j \in starts : i <= j

\* `sub in s`
Contains(s, sub) == Find(s, sub) > 0

\* s.split(sub)[-1]: split is left to right on non-overlapping occurrences
RECURSIVE SplitLast(_, _)
SplitLast(s, sub) ==
    IF ~Contains(s, sub) THEN s
    ELSE SplitLast(SubSeq(s, Find(s, sub) + Len(sub), Len(s)), sub)

\* all sequences over S of length 0..n
RECURSIVE SeqsUpTo(_, _)
SeqsUpTo(S, n) ==
    IF n = 0 THEN { <<>> }
    ELSE LET shorter == SeqsUpTo(S, n - 1)
         IN shorter \cup { Append(s, a) : s \in { t \in shorter : Len(t) = n - 1 }, a \in S }

---------------------------------------------------------------------------
(* pathlib.PurePosixPath: [root |-> number of leading slashes kept (0, 1   *)
(* or 2), parts |-> the segments]                                          *)

\* the segments of a string: split at "/", empty and "." segments dropped
RECURSIVE Segs(_)
Segs(s) ==
    IF s = <<>> THEN <<>>
    ELSE LET k    == Find(s, <<SEP>>)
             seg  == IF k = 0 THEN s ELSE SubSeq(s, 1, k - 1)
             rest == IF k = 0 THEN <<>> ELSE SubSeq(s, k + 1, Len(s))
         IN (IF seg = <<>> \/ seg = <<".">> THEN <<>> ELSE <<seg>>) \o Segs(rest)

\* exactly two leading slashes are kept, three or more collapse to one
RootOf(s) ==
    IF Len(s) >= 1 /\ s[1] = SEP
    THEN IF Len(s) >= 2 /\ s[2] = SEP /\ ~(Len(s) >= 3 /\ s[3] = SEP) THEN 2 ELSE 1
    ELSE 0

\* Path(s)
PathOf(s) == [root |-> RootOf(s), parts |-> Segs(s)]

RECURSIVE JoinSegs(_)
JoinSegs(ps) ==
    IF ps = <<>> THEN <<>>
    ELSE IF Len(ps) = 1 THEN Head(ps)
    ELSE Head(ps) \o <<SEP>> \o JoinSegs(Tail(ps))

\* str(path)
StrOfPath(p) ==
    IF p.root = 0 /\ p.parts = <<>> THEN <<".">>
    ELSE [i \in 1..p.root |-> SEP] \o JoinSegs(p.parts)

\* base.joinpath(s): an absolute s replaces base
JoinPath(base, s) ==
    IF RootOf(s) > 0 THEN PathOf(s)
    ELSE [root |-> base.root, parts |-> base.parts \o Segs(s)]

\* path.parent
Parent(p) ==
    IF p.parts = <<>> THEN p
    ELSE [root |-> p.root, parts |-> SubSeq(p.parts, 1, Len(p.parts) - 1)]

\* Path(__file__).parent: the directory the service is installed in
AppDir == [root |-> 1, parts |-> << <<"app">> >>]

\* dir_temp_data = Path(__file__).parent.joinpath("temp_data")
DirTempData == JoinPath(AppDir, <<"temp_data">>)

\* the redundant prefix the request models strip
Needle == <<"temp_data", SEP, "registration", SEP>>

\* the loop body of the request models' __init__ for one string value
ResolvePath(s) ==
    JoinPath(DirTempData, IF Contains(s, Needle) THEN SplitLast(s, Needle) ELSE s)

---------------------------------------------------------------------------
(* Values and mappings.  A value is a str or a Path, as in Python; a dict  *)
(* is the sequence of its items in insertion order, its keys distinct.     *)

StrVal(s)  == [t |-> "str", s |-> s, p |-> PathOf(<<>>)]
PathVal(p) == [t |-> "path", s |-> <<>>, p |-> p]

\* str(v), as an f-string or str() formats it
ToStr(v) == IF v.t = "path" THEN StrOfPath(v.p) ELSE v.s

\* Path(v)
ToPath(v) == IF v.t = "path" THEN v.p ELSE PathOf(v.s)

Item(k, v) == [k |-> k, v |-> v]

\* `key in d`
HasKey(d, key) == \E i \in 1..Len(d) : d[i].k = key

\* d[key], for a key that is present
Get(d, key) == d[CHOOSE i \in 1..Len(d) : d[i].k = key].v

\* `x in lst` for a list
InList(x, lst) == \E i \in 1..Len(lst) : lst[i] = x

---------------------------------------------------------------------------
(* register(): lines 57-186 *)

global_param_possible_key_list == <<
    "fixed", "moving", "fixed_roi",
    "moving_roi", "fixed_landmarks",
    "moving_landmarks", "warped_landmarks",
    "xform_in", "xform_out", "vf_out",
    "image_out", "img_out_fmt", "img_out_type",
    "resample_when_linear", "logfile" >>

stage_param_possible_key_list == <<
    "fixed_landmarks", "moving_landmarks", "warped_landmarks", "xform_out",
    "xform", "vf_out", "img_out", "img_out_fmt", "img_out_type",
    "resample_when_linear", "background_max", "convergence_tol", "default_value",
    "demons_acceleration", "demons_filter_width", "demons_homogenization", "demons_std",
    "demons_gradient_type", "demons_smooth_update_field", "demons_std_update_field",
    "demons_smooth_deformation_field", "demons_std_deformation_field", "demons_step_length",
    "grad_tol", "grid_spac", "gridsearch_min_overlap", "histoeq", "landmark_stiffness",
    "lbfgsb_mmax", "mattes_fixed_minVal", "mattes_fixed_maxVal", "mattes_moving_minVal",
    "mattes_moving_maxVal", "max_its", "max_step", "metric", "mi_histogram_bins", "min_its",
    "min_step", "num_hist_levels_equal", "num_matching_points", "num_samples", "num_samples_pct",
    "num_substages", "optim", "optim_subtype", "pgtol", "regularization", "diffusion_penalty",
    "curvature_penalty", "linear_elastic_multiplier", "third_order_penalty",
    "total_displacement_penalty", "lame_coefficient_1", "lame_coefficient_2", "res",
    "res_mm", "res_mm_fixed", "res_mm_moving", "res_vox", "res_vox_fixed",
    "res_vox_moving", "rsg_grad_tol", "ss", "ss_fixed", "ss_moving",
    "threading", "thresh_mean_intensity", "translation_scale_factor" >>

\* for key in params: if key in allowed: final[key] = params[key]
RECURSIVE FilterParams(_, _)
FilterParams(params, allowed) ==
    IF params = <<>> THEN <<>>
    ELSE (IF InList(Head(params).k, allowed) THEN <<Head(params)>> ELSE <<>>)
         \o FilterParams(Tail(params), allowed)

\* as FinalGlobalParams, nothing filtered
FinalGlobalParamsUnfiltered(global_params) == global_params

\* lines 120-124
FinalGlobalParams(global_params) ==
    FilterParams(global_params, global_param_possible_key_list)

\* lines 158-161
FinalStageParams(stage_params) ==
    FilterParams(stage_params, stage_param_possible_key_list)

\* lines 156-162
FinalStageParamsList(stage_params_list) ==
    [i \in 1..Len(stage_params_list) |-> FinalStageParams(stage_params_list[i])]

\* as RequiredError, the check of `moving` forgotten
RequiredErrorNoMoving(final_global_params) ==
    IF ~HasKey(final_global_params, "fixed") THEN "ValueError: The fixed image is required."
    ELSE IF ~HasKey(final_global_params, "image_out") THEN "ValueError: The output image is required."
    ELSE ""

\* lines 127-132: the error raised, "" when the required parameters are there
RequiredError(final_global_params) ==
    IF ~HasKey(final_global_params, "fixed") THEN "ValueError: The fixed image is required."
    ELSE IF ~HasKey(final_global_params, "moving") THEN "ValueError: The moving image is required."
    ELSE IF ~HasKey(final_global_params, "image_out") THEN "ValueError: The output image is required."
    ELSE ""

\* line 165
OutDir(final_global_params) == Parent(ToPath(Get(final_global_params, "image_out")))

\* line 168
ParmTxtPath(out_dir) == JoinPath(out_dir, <<"parm.txt">>)

NL == "\n"

\* for key in d: param_txt += f"{key}={d[key]}\n"
RECURSIVE RenderItems(_)
RenderItems(d) ==
    IF d = <<>> THEN <<>>
    ELSE <<Head(d).k, "=">> \o ToStr(Head(d).v) \o <<NL>> \o RenderItems(Tail(d))

\* as RenderStages, a stage left with no parameter skipped
RECURSIVE RenderStagesSkipEmpty(_)
RenderStagesSkipEmpty(stages) ==
    IF stages = <<>> THEN <<>>
    ELSE (IF Head(stages) = <<>> THEN <<>>
          ELSE <<"[Stage]", NL>> \o RenderItems(Head(stages)) \o <<NL>>)
         \o RenderStagesSkipEmpty(Tail(stages))

\* lines 173-177
RECURSIVE RenderStages(_)
RenderStages(stages) ==
    IF stages = <<>> THEN <<>>
    ELSE <<"[Stage]", NL>> \o RenderItems(Head(stages)) \o <<NL>> \o RenderStages(Tail(stages))

\* lines 169-177
ParamTxt(final_global_params, final_stage_params_list) ==
    <<"[Global]", NL>> \o RenderItems(final_global_params) \o <<NL>>
    \o RenderStages(final_stage_params_list)

\* line 182
RegisterCommand(parm_txt_path) == <<"plastimatch", "register", StrOfPath(parm_txt_path)>>

---------------------------------------------------------------------------
(* The requests in flight.  FastAPI runs a `def` handler in a worker       *)
(* thread, so two requests interleave at every blocking call.              *)

Reqs == {1, 2}

NoLoc == [final_global_params |-> <<>>, final_stage_params_list |-> <<>>,
          parm_txt_path |-> PathOf(<<>>), param_txt |-> <<>>,
          command |-> <<>>, error |-> ""]

NoReq == [entry |-> "none", global_params |-> <<>>, stage_params_list |-> <<>>,
          args |-> <<>>]

Said(what, arg) == [what |-> what, arg |-> arg]

\* a child process: its argument vector, whether it started, the config text
\* it has read (register only), its exit status
Proc(argv, status) ==
    [argv |-> argv, status |-> status, hasRead |-> FALSE, read |-> <<>>, code |-> 0]

\* lines 57-132: filter the global parameters, check the required ones,
\* filter the stages
RegisterValidate(r) ==
    /\ pc[r] = "register"
    /\ LET fg  == FinalGlobalParams(req[r].global_params)
           err == RequiredError(fg)
       IN IF err # ""
          THEN /\ loc' = [loc EXCEPT ![r].final_global_params = fg, ![r].error = err]
               /\ pc' = [pc EXCEPT ![r] = "raised"]
          ELSE /\ loc' = [loc EXCEPT ![r].final_global_params = fg,
                                     ![r].final_stage_params_list =
                                         FinalStageParamsList(req[r].stage_params_list)]
               /\ pc' = [pc EXCEPT ![r] = "mkdir"]
    /\ UNCHANGED <<value, resolved, req, dirs, files, procs, printed>>

\* lines 165-168: out_dir.mkdir(parents=True, exist_ok=True)
RegisterMkdir(r) ==
    /\ pc[r] = "mkdir"
    /\ LET out_dir == OutDir(loc[r].final_global_params)
       IN /\ dirs' = dirs \cup {StrOfPath(out_dir)}
          /\ loc' = [loc EXCEPT ![r].parm_txt_path = ParmTxtPath(out_dir)]
    /\ pc' = [pc EXCEPT ![r] = "write"]
    /\ UNCHANGED <<value, resolved, req, files, procs, printed>>

\* lines 169-180: render the text and write it to parm.txt
RegisterWrite(r) ==
    /\ pc[r] = "write"
    /\ LET txt == ParamTxt(loc[r].final_global_params, loc[r].final_stage_params_list)
           pth == StrOfPath(loc[r].parm_txt_path)
       IN /\ loc' = [loc EXCEPT ![r].param_txt = txt]
          /\ files' = [q \in DOMAIN files \cup {pth} |->
                         IF q = pth
                         THEN [text |-> txt,
                               writers |-> IF pth \in DOMAIN files
                                           THEN Append(files[pth].writers, r) ELSE <<r>>]
                         ELSE files[q]]
    /\ pc' = [pc EXCEPT ![r] = "spawn"]
    /\ UNCHANGED <<value, resolved, req, dirs, procs, printed>>

\* lines 182-186: subprocess.run starts the child, or fails to (the binary
\* is missing); the except clause prints the failure
RegisterSpawn(r) ==
    /\ pc[r] = "spawn"
    /\ LET command == RegisterCommand(loc[r].parm_txt_path)
       IN /\ loc' = [loc EXCEPT ![r].command = command]
          /\ \/ /\ procs' = [procs EXCEPT ![r] = Append(@, Proc(command, "running"))]
                /\ pc' = [pc EXCEPT ![r] = "wait"]
                /\ UNCHANGED printed
             \/ /\ procs' = [procs EXCEPT ![r] = Append(@, Proc(command, "failed_to_start"))]
                /\ printed' = [printed EXCEPT ![r] = Append(@, Said("FileNotFoundError", command))]
                /\ pc' = [pc EXCEPT ![r] = "returned"]
    /\ UNCHANGED <<value, resolved, req, dirs, files>>

\* the child `plastimatch register parm.txt` opens and reads its parameter file
PlastimatchRead(r) ==
    /\ procs[r] # <<>>
    /\ LET i == Len(procs[r])
           p == procs[r][i]
       IN /\ p.status = "running"
          /\ p.argv[2] = "register"
          /\ ~p.hasRead
          /\ p.argv[3] \in DOMAIN files
          /\ procs' = [procs EXCEPT ![r][i].hasRead = TRUE,
                                    ![r][i].read = files[p.argv[3]].text]
    /\ UNCHANGED <<value, resolved, req, pc, loc, dirs, files, printed>>

\* the child exits, with status 0 or not
PlastimatchExit(r) ==
    /\ procs[r] # <<>>
    /\ LET i == Len(procs[r])
           p == procs[r][i]
       IN /\ p.status = "running"
          /\ p.argv[2] = "register" => p.hasRead
          /\ \E code \in {0, 1} :
                procs' = [procs EXCEPT ![r][i].status = "exited", ![r][i].code = code]
    /\ UNCHANGED <<value, resolved, req, pc, loc, dirs, files, printed>>

\* as RegisterReturn, a failed run started again
RegisterReturnRetry(r) ==
    /\ pc[r] = "wait"
    /\ LET p == procs[r][Len(procs[r])]
       IN /\ p.status = "exited"
          /\ printed' = [printed EXCEPT ![r] =
                IF p.code # 0 THEN Append(@, Said("CalledProcessError", p.argv)) ELSE @]
          /\ pc' = [pc EXCEPT ![r] = IF p.code # 0 THEN "spawn" ELSE "returned"]
    /\ UNCHANGED <<value, resolved, req, loc, dirs, files, procs>>

\* lines 183-186: subprocess.run returns, or raises CalledProcessError
\* (check=True), which the except clause prints
RegisterReturn(r) ==
    /\ pc[r] = "wait"
    /\ LET p == procs[r][Len(procs[r])]
       IN /\ p.status = "exited"
          /\ printed' = [printed EXCEPT ![r] =
                IF p.code # 0 THEN Append(@, Said("CalledProcessError", p.argv)) ELSE @]
    /\ pc' = [pc EXCEPT ![r] = "returned"]
    /\ UNCHANGED <<value, resolved, req, loc, dirs, files, procs>>

---------------------------------------------------------------------------
(* POST /plastimatch_register: lines 11-55 *)

\* Register_Inputs.__init__, lines 31-38: every value of global_params is
\* resolved and stored back as a Path
ResolveGlobalParams(global_params) ==
    [i \in 1..Len(global_params) |->
        Item(global_params[i].k, PathVal(ResolvePath(ToStr(global_params[i].v))))]

RegisterInputsInit(r) ==
    /\ pc[r] = "construct"
    /\ req' = [req EXCEPT ![r].global_params = ResolveGlobalParams(@)]
    /\ pc' = [pc EXCEPT ![r] = "handler"]
    /\ UNCHANGED <<value, resolved, loc, dirs, files, procs, printed>>

\* as HandlerLookups, the print of vf_out left out
HandlerLookupsNoVf == << Item("fixed", "static image: "), Item("moving", "moving image: "),
                         Item("image_out", "output image: ") >>

\* the keys register_api looks up on lines 51-54, with what it prints before each
HandlerLookups == << Item("fixed", "static image: "), Item("moving", "moving image: "),
                     Item("image_out", "output image: "), Item("vf_out", "output vf: ") >>

\* how many of the four prints succeed before a lookup raises KeyError
LookupsDone(global_params) ==
    LET ok == { n \in 0..Len(HandlerLookups) :
                  \A i \in 1..n : HasKey(global_params, HandlerLookups[i].k) }
    IN CHOOSE n \in ok : \A m \in ok : m <= n

\* as RegisterApi, the four prints left out
RegisterApiNoLookups(r) ==
    /\ pc[r] = "handler"
    /\ pc' = [pc EXCEPT ![r] = "register"]
    /\ UNCHANGED <<value, resolved, req, loc, dirs, files, procs, printed>>

\* register_api, lines 51-55, up to the call of register
RegisterApi(r) ==
    /\ pc[r] = "handler"
    /\ LET gp == req[r].global_params
           n  == LookupsDone(gp)
       IN /\ printed' = [printed EXCEPT ![r] = @ \o
                 [i \in 1..n |-> Said(HandlerLookups[i].v, ToStr(Get(gp, HandlerLookups[i].k)))]]
          /\ IF n < Len(HandlerLookups)
             THEN /\ loc' = [loc EXCEPT ![r].error = "KeyError"]
                  /\ pc' = [pc EXCEPT ![r] = "raised"]
             ELSE /\ pc' = [pc EXCEPT ![r] = "register"]
                  /\ UNCHANGED loc
    /\ UNCHANGED <<value, resolved, req, dirs, files, procs>>

---------------------------------------------------------------------------
(* convert(): lines 230-250 *)

NoneVal == [t |-> "none", s |-> <<"None">>, p |-> PathOf(<<>>)]

\* bool(v): None and "" are false, a Path is always true
Truthy(v) == v.t = "path" \/ (v.t = "str" /\ v.s # <<>>)

\* as ConvertCommand, --xf appended whatever xf is
ConvertCommandAlwaysXf(pth_input, pth_output, xf) ==
    <<"plastimatch", "convert", ToStr(pth_input), ToStr(pth_output)>>
    \o <<"--xf", ToStr(xf)>>

\* lines 244-246
ConvertCommand(pth_input, pth_output, xf) ==
    <<"plastimatch", "convert", ToStr(pth_input), ToStr(pth_output)>>
    \o (IF Truthy(xf) THEN <<"--xf", ToStr(xf)>> ELSE <<>>)

\* lines 244-248: subprocess.run starts the child, or fails to; only
\* CalledProcessError is caught, so a failure to start propagates
ConvertSpawn(r) ==
    /\ pc[r] = "convert"
    /\ LET command == ConvertCommand(req[r].args[1], req[r].args[2], req[r].args[3])
       IN \/ /\ procs' = [procs EXCEPT ![r] = Append(@, Proc(command, "running"))]
             /\ loc' = [loc EXCEPT ![r].command = command]
             /\ pc' = [pc EXCEPT ![r] = "wait_convert"]
          \/ /\ procs' = [procs EXCEPT ![r] = Append(@, Proc(command, "failed_to_start"))]
             /\ loc' = [loc EXCEPT ![r].command = command, ![r].error = "FileNotFoundError"]
             /\ pc' = [pc EXCEPT ![r] = "raised"]
    /\ UNCHANGED <<value, resolved, req, dirs, files, printed>>

\* lines 247-250: subprocess.run returns, or raises CalledProcessError, which
\* is printed
ConvertReturn(r) ==
    /\ pc[r] = "wait_convert"
    /\ LET p == procs[r][Len(procs[r])]
       IN /\ p.status = "exited"
          /\ printed' = [printed EXCEPT ![r] =
                IF p.code # 0
                THEN Append(@, Said("Error occurred while running plastimatch convert: ", p.argv))
                ELSE @]
    /\ pc' = [pc EXCEPT ![r] = "returned"]
    /\ UNCHANGED <<value, resolved, req, loc, dirs, files, procs>>

---------------------------------------------------------------------------
(* Inputs_convert.__init__ on one string field: lines 203-211 *)

InputsConvertInit ==
    /\ value.pending
    /\ resolved' = Append(resolved, ResolvePath(value.s))
    /\ value' = [value EXCEPT !.pending = FALSE]
    /\ UNCHANGED <<req, pc, loc, dirs, files, procs, printed>>

\* the client sends the path it was given back in a later request
Resubmit ==
    /\ ~value.pending
    /\ resolved # <<>>
    /\ Len(resolved) < MaxResolve
    /\ value' = [s |-> StrOfPath(resolved[Len(resolved)]), pending |-> TRUE]
    /\ UNCHANGED <<resolved, req, pc, loc, dirs, files, procs, printed>>

---------------------------------------------------------------------------
(* The inputs *)

\* the atoms a client's path string is made of
PathAtoms == {SEP, "..", "temp_data", "registration", "app", "a"}

PathStrings == SeqsUpTo(PathAtoms, MaxLen)

KeysOf(d) == { d[i].k : i \in 1..Len(d) }

\* every dict of at most n items whose keys are in DOMAIN vals, the value of
\* key k one of vals[k]
RECURSIVE DictsUpTo(_, _)
DictsUpTo(vals, n) ==
    IF n = 0 THEN { <<>> }
    ELSE LET shorter == DictsUpTo(vals, n - 1)
         IN shorter \cup
            UNION { UNION { { Append(d, Item(k, v)) : v \in vals[k] } :
                            k \in DOMAIN vals \ KeysOf(d) } :
                    d \in { e \in shorter : Len(e) = n - 1 } }

\* a direct call register(global_params, stage_params_list): the values are
\* strings.  "xform" is a stage key only, "fixed" a global key only,
\* "vf_out" is on both lists.
GlobalValues ==
    "fixed" :> {StrVal(<<"f">>)} @@ "moving" :> {StrVal(<<"m">>)} @@
    "image_out" :> {StrVal(<<"o">>), StrVal(<<"d", SEP, "o">>)} @@
    "vf_out" :> {StrVal(<<"v">>)} @@ "xform" :> {StrVal(<<"x">>)}

StageValues ==
    "xform" :> {StrVal(<<"bspline">>)} @@ "fixed" :> {StrVal(<<"f">>)} @@
    "max_its" :> {StrVal(<<"10">>)}

\* a valid global mapping with a key that is not a global parameter
ValidGlobalParams == <<
    Item("fixed", StrVal(<<"f">>)), Item("xform", StrVal(<<"x">>)),
    Item("moving", StrVal(<<"m">>)), Item("image_out", StrVal(<<"d", SEP, "o">>)) >>

\* the calls made: every small global mapping with no stage or one stage, and
\* the valid global mapping with every short list of small stage mappings
DirectCalls ==
    { [entry |-> "direct", global_params |-> g, stage_params_list |-> s, args |-> <<>>] :
        g \in DictsUpTo(GlobalValues, MaxGlobalKeys),
        s \in { <<>>, << <<Item("xform", StrVal(<<"bspline">>))>> >> } }
    \cup
    { [entry |-> "direct", global_params |-> ValidGlobalParams,
       stage_params_list |-> s, args |-> <<>>] :
        s \in SeqsUpTo(DictsUpTo(StageValues, MaxStageKeys), MaxStages) }

\* the request of test_register_api, lines 252-270
TestGlobalParams == <<
    Item("fixed", StrVal(<<"..", SEP, "temp_data", SEP, "static.nrrd">>)),
    Item("moving", StrVal(<<"..", SEP, "temp_data", SEP, "moving.nrrd">>)),
    Item("image_out", StrVal(<<"..", SEP, "temp_data", SEP, "registered.nrrd">>)),
    Item("vf_out", StrVal(<<"..", SEP, "temp_data", SEP, "vf.nrrd">>)) >>

TestStageParamsList == << <<Item("xform", StrVal(<<"bspline">>))>> >>

\* d without the keys in ks
RECURSIVE Without(_, _)
Without(d, ks) ==
    IF d = <<>> THEN <<>>
    ELSE (IF Head(d).k \in ks THEN <<>> ELSE <<Head(d)>>) \o Without(Tail(d), ks)

\* d with the value of key k replaced
With(d, k, v) == [i \in 1..Len(d) |-> IF d[i].k = k THEN Item(k, v) ELSE d[i]]

\* the output images the clients ask for: two of them in the same directory
ImageOuts == { StrVal(<<"..", SEP, "temp_data", SEP, "registered.nrrd">>),
               StrVal(<<"..", SEP, "temp_data", SEP, "other.nrrd">>),
               StrVal(<<"run2", SEP, "registered.nrrd">>) }

\* the bodies posted to /plastimatch_register: the test's request, with another
\* output image, with some keys left out
ApiRequests ==
    { [entry |-> "api", global_params |-> Without(With(TestGlobalParams, "image_out", o), ks),
       stage_params_list |-> TestStageParamsList, args |-> <<>>] :
        o \in ImageOuts,
        ks \in { k \in SUBSET KeysOf(TestGlobalParams) : Cardinality(k) <= MaxMissing } }

\* the calls convert(pth_input, pth_output, xf): strings, or the Paths that
\* Inputs_convert makes of them (test_convert_api, lines 273-277)
ConvertPaths ==
    LET strs == { <<"..", SEP, "temp_data", SEP, "moving.nrrd">>,
                  <<"..", SEP, "temp_data", SEP, "warped.nrrd">>,
                  <<"..", SEP, "temp_data", SEP, "vf.nrrd">> }
    IN { StrVal(s) : s \in strs } \cup { PathVal(ResolvePath(s)) : s \in strs }

ConvertCalls ==
    { [entry |-> "convert", global_params |-> <<>>, stage_params_list |-> <<>>,
       args |-> <<i, o, x>>] :
        i \in ConvertPaths, o \in ConvertPaths,
        x \in ConvertPaths \cup {NoneVal, StrVal(<<>>)} }

---------------------------------------------------------------------------
(* The specifications *)

Idle ==
    /\ value = [s |-> <<>>, pending |-> FALSE]
    /\ resolved = <<>>

Fresh ==
    /\ loc = [r \in Reqs |-> NoLoc]
    /\ dirs = {}
    /\ files = <<>>
    /\ procs = [r \in Reqs |-> <<>>]
    /\ printed = [r \in Reqs |-> <<>>]

\* two requests to POST /plastimatch_register, served concurrently
Init ==
    /\ Idle /\ Fresh
    /\ req \in [Reqs -> ApiRequests]
    /\ pc = [r \in Reqs |-> "construct"]

Next ==
    \E r \in Reqs :
        \/ RegisterInputsInit(r)
        \/ RegisterApi(r)
        \/ RegisterValidate(r)
        \/ RegisterMkdir(r)
        \/ RegisterWrite(r)
        \/ RegisterSpawn(r)
        \/ PlastimatchRead(r)
        \/ PlastimatchExit(r)
        \/ RegisterReturn(r)

Spec == Init /\ [][Next]_vars

\* one direct call of register
InitRegister ==
    /\ Idle /\ Fresh
    /\ \E c \in DirectCalls : req = [r \in Reqs |-> IF r = 1 THEN c ELSE NoReq]
    /\ pc = [r \in Reqs |-> IF r = 1 THEN "register" ELSE "none"]

NextRegister ==
    \E r \in Reqs :
        \/ RegisterValidate(r)
        \/ RegisterMkdir(r)
        \/ RegisterWrite(r)
        \/ RegisterSpawn(r)
        \/ PlastimatchRead(r)
        \/ PlastimatchExit(r)
        \/ RegisterReturn(r)

SpecRegister == InitRegister /\ [][NextRegister]_vars

\* one direct call of convert
InitConvert ==
    /\ Idle /\ Fresh
    /\ \E c \in ConvertCalls : req = [r \in Reqs |-> IF r = 1 THEN c ELSE NoReq]
    /\ pc = [r \in Reqs |-> IF r = 1 THEN "convert" ELSE "none"]

NextConvert ==
    \E r \in Reqs :
        \/ ConvertSpawn(r)
        \/ PlastimatchExit(r)
        \/ ConvertReturn(r)

SpecConvert == InitConvert /\ [][NextConvert]_vars

\* the path resolver on every short string
InitPath ==
    /\ Fresh
    /\ value \in { [s |-> s, pending |-> TRUE] : s \in PathStrings }
    /\ resolved = <<>>
    /\ req = [r \in Reqs |-> NoReq]
    /\ pc = [r \in Reqs |-> "none"]

NextPath == InputsConvertInit \/ Resubmit

SpecPath == InitPath /\ [][NextPath]_vars

---------------------------------------------------------------------------
(* What the claims speak of *)

REQUIRED == {"fixed", "moving", "image_out"}

\* the request's global mapping lacks a required parameter
MissingRequired(r) == ~(REQUIRED \subseteq KeysOf(req[r].global_params))

\* the calls of register that came in directly, and those through the handler
Direct(r) == req[r].entry = "direct"
ViaApi(r) == req[r].entry = "api"

\* the items of d whose key is on the list, in d's order
Kept(d, allowed) ==
    LET idx == { i \in 1..Len(d) : InList(d[i].k, allowed) }
        nth(n) == CHOOSE i \in idx : Cardinality({ j \in idx : j < i }) = n - 1
    IN [n \in 1..Cardinality(idx) |-> d[nth(n)]]

\* one `key=value` line
KeyValueLine(e) == <<e.k, "=">> \o ToStr(e.v) \o <<NL>>

\* the section the spec describes: a header line, the kept items, a blank line
Section(header, d, allowed) ==
    <<header, NL>>
    \o Flatten([n \in 1..Len(Kept(d, allowed)) |-> KeyValueLine(Kept(d, allowed)[n])])
    \o <<NL>>

\* the text the spec describes for a request
ExpectedText(global_params, stage_params_list) ==
    Section("[Global]", global_params, global_param_possible_key_list)
    \o Flatten([i \in 1..Len(stage_params_list) |->
                  Section("[Stage]", stage_params_list[i], stage_param_possible_key_list)])

\* where the spec puts the parameter file: beside the output image
ExpectedParmPath(global_params) ==
    StrOfPath(JoinPath(Parent(ToPath(Get(global_params, "image_out"))), <<"parm.txt">>))

Count(s, x) == Cardinality({ i \in 1..Len(s) : s[i] = x })

\* s.split(x) for a sequence s and an element x
RECURSIVE SplitOn(_, _)
SplitOn(s, x) ==
    LET k == Find(s, <<x>>)
    IN IF k = 0 THEN <<s>>
       ELSE <<SubSeq(s, 1, k - 1)>> \o SplitOn(SubSeq(s, k + 1, Len(s)), x)

\* the sections of a config text, each the sequence of its lines: the text is
\* cut into lines, the lines into groups at the blank lines; the last blank
\* line and the end of the text leave two empty groups
SectionsOf(text) ==
    LET groups == SplitOn(SplitOn(text, NL), <<>>)
    IN SubSeq(groups, 1, Len(groups) - 2)

\* the (key, value) pairs of a section's lines
PairsOf(section) ==
    { <<section[i][1], SubSeq(section[i], 3, Len(section[i]))>> : i \in 2..Len(section) }

\* the (key, value) pairs of a mapping that are on the list
AllowedPairs(d, allowed) ==
    { <<d[i].k, ToStr(d[i].v)>> : i \in { j \in 1..Len(d) : InList(d[j].k, allowed) } }

\* the path names the directory or something below it (".." resolved)
RECURSIVE Normal(_, _)
Normal(parts, acc) ==
    IF parts = <<>> THEN acc
    ELSE IF Head(parts) = <<"..">>
         THEN Normal(Tail(parts), IF acc = <<>> THEN <<>> ELSE SubSeq(acc, 1, Len(acc) - 1))
         ELSE Normal(Tail(parts), Append(acc, Head(parts)))

Under(p, dir) ==
    LET n == Normal(p.parts, <<>>)
        d == Normal(dir.parts, <<>>)
    IN /\ p.root = dir.root
       /\ Len(n) >= Len(d)
       /\ SubSeq(n, 1, Len(d)) = d

---------------------------------------------------------------------------
(* The claims about register(), under SpecRegister *)

\* C1: a call of register whose global mapping lacks fixed, moving or
\* image_out never gets past the check of the required parameters: it ends
\* raising the missing-parameter error, and when it has raised no directory
\* was created, no file written and no process spawned.
C1_MissingRequiredRaises ==
    \A r \in Reqs : (Direct(r) /\ MissingRequired(r)) =>
        /\ pc[r] \in {"register", "raised"}
        /\ pc[r] = "raised" =>
              /\ loc[r].error \in { "ValueError: The fixed image is required.",
                                    "ValueError: The moving image is required.",
                                    "ValueError: The output image is required." }
              /\ dirs = {}
              /\ DOMAIN files = {}
              /\ procs[r] = <<>>

C1_Witness == Direct(1) /\ MissingRequired(1) /\ pc[1] = "raised"

\* C2: once a valid call has written parm.txt, the file holds exactly the
\* [Global] section of the kept global parameters in insertion order, then one
\* [Stage] section per stage entry in the order of the list, and there are as
\* many [Stage] lines as stage entries, those with no key kept included.
C2_RenderedText ==
    \A r \in Reqs : (Direct(r) /\ pc[r] \in {"spawn", "wait", "returned"}) =>
        LET pth == StrOfPath(loc[r].parm_txt_path)
        IN /\ pth \in DOMAIN files
           /\ files[pth].text = ExpectedText(req[r].global_params, req[r].stage_params_list)
           /\ Count(files[pth].text, "[Stage]") = Len(req[r].stage_params_list)

C2_Witness ==
    /\ Direct(1) /\ pc[1] = "returned"
    /\ Len(req[1].global_params) = 4
    /\ Len(req[1].stage_params_list) = 2
    /\ \E i \in 1..2 : /\ req[1].stage_params_list[i] # <<>>
                       /\ Kept(req[1].stage_params_list[i], stage_param_possible_key_list) = <<>>

\* C3: the global allow-list has 15 keys; the keys of the [Global] section of
\* the written config are the keys of the request's global mapping that are
\* on it, each with the value supplied; likewise every [Stage] section and
\* the stage allow-list; and a key off the list makes no call fail.
C3_AllowListFiltering ==
    /\ Len(global_param_possible_key_list) = 15
    /\ \A r \in Reqs : Direct(r) =>
          /\ ~MissingRequired(r) => pc[r] # "raised"
          /\ pc[r] \in {"spawn", "wait", "returned"} =>
                LET secs == SectionsOf(files[StrOfPath(loc[r].parm_txt_path)].text)
                    spl  == req[r].stage_params_list
                IN /\ Len(secs) = 1 + Len(spl)
                   /\ PairsOf(secs[1]) =
                         AllowedPairs(req[r].global_params, global_param_possible_key_list)
                   /\ \A j \in 1..Len(spl) :
                         PairsOf(secs[1 + j]) = AllowedPairs(spl[j], stage_param_possible_key_list)

C3_Witness ==
    /\ Direct(1) /\ pc[1] = "returned"
    /\ HasKey(req[1].global_params, "xform")
    /\ \E j \in 1..Len(req[1].stage_params_list) :
          KeysOf(req[1].stage_params_list[j]) = {"fixed", "xform"}

\* C8: a valid call writes parm.txt once, beside image_out, and only that
\* file; it spawns at most one process, after the write, with the argument
\* vector plastimatch register <parm.txt>; it never raises; when it has
\* returned the one process has ended or failed to start, and a failure was
\* printed exactly once.
C8_WriteThenSpawnOnce ==
    \A r \in Reqs : (Direct(r) /\ ~MissingRequired(r)) =>
        LET pth == ExpectedParmPath(req[r].global_params)
        IN /\ pc[r] # "raised"
           /\ DOMAIN files \subseteq {pth}
           /\ pth \in DOMAIN files => files[pth].writers = <<r>>
           /\ Len(procs[r]) <= 1
           /\ procs[r] # <<>> =>
                 /\ pth \in DOMAIN files
                 /\ procs[r][1].argv = <<"plastimatch", "register", pth>>
           /\ pc[r] = "returned" =>
                 /\ Len(procs[r]) = 1
                 /\ procs[r][1].status \in {"exited", "failed_to_start"}
                 /\ Len(printed[r]) =
                       IF procs[r][1].status = "failed_to_start" \/ procs[r][1].code # 0
                       THEN 1 ELSE 0

C8_Witness ==
    /\ Direct(1) /\ pc[1] = "returned"
    /\ procs[1][1].status = "exited" /\ procs[1][1].code = 1
    /\ Len(printed[1]) = 1

---------------------------------------------------------------------------
(* The claims about the path resolver, under SpecPath *)

\* C4: resolving the string of a resolved path gives the same path again.
C4_Idempotent ==
    \A i \in 2..Len(resolved) : resolved[i] = resolved[i - 1]

\* C5: every path the resolver returns is absolute and lies under the
\* working-directory root.
C5_UnderRoot ==
    \A i \in 1..Len(resolved) :
        /\ resolved[i].root = 1
        /\ Under(resolved[i], DirTempData)

---------------------------------------------------------------------------
(* The claims about POST /plastimatch_register, under Spec *)

HasImageOut(r) == HasKey(req[r].global_params, "image_out")

\* C6: when two concurrent requests name different output images, no
\* parameter file is written by both, and the process a request spawns reads
\* the text that request rendered.
C6_OwnParameterFile ==
    \A r \in Reqs, s \in Reqs :
        ( /\ r # s /\ ViaApi(r) /\ ViaApi(s)
          /\ HasImageOut(r) /\ HasImageOut(s)
          /\ pc[r] # "construct" /\ pc[s] # "construct"
          /\ Get(req[r].global_params, "image_out") # Get(req[s].global_params, "image_out") )
        => /\ \A f \in DOMAIN files : ~(InList(r, files[f].writers) /\ InList(s, files[f].writers))
           /\ \A i \in 1..Len(procs[r]) :
                 procs[r][i].hasRead => procs[r][i].read = loc[r].param_txt

HandlerLabels == { HandlerLookups[i].v : i \in 1..Len(HandlerLookups) }

C10_VfOutLookup ==
    \A r \in Reqs : (ViaApi(r) /\ ~HasKey(req[r].global_params, "vf_out")) =>
        /\ pc[r] \in {"construct", "handler", "raised"}
        /\ loc[r].param_txt = <<>>
        /\ procs[r] = <<>>
        /\ \A f \in DOMAIN files : ~InList(r, files[f].writers)
        /\ pc[r] = "raised" => loc[r].error = "KeyError"

C10_Witness ==
    /\ ViaApi(1) /\ KeysOf(req[1].global_params) = REQUIRED
    /\ pc[1] = "raised"
    /\ Len(printed[1]) = 3

---------------------------------------------------------------------------
(* The claim about convert(), under SpecConvert *)

\* a transform path was supplied: xf is neither None nor the empty string
Supplied(xf) == xf.t # "none" /\ ToStr(xf) # <<>>

\* C9: a call of convert spawns one process and no second one, with the
\* argument vector plastimatch convert <input> <output>, followed by
\* --xf <transform> exactly when a transform was supplied; a non-zero exit
\* status is printed once and the call returns instead of raising.
C9_ConvertCommand ==
    \A r \in Reqs : req[r].entry = "convert" =>
        LET pth_input  == req[r].args[1]
            pth_output == req[r].args[2]
            xf         == req[r].args[3]
        IN /\ Len(procs[r]) <= 1
           /\ pc[r] # "convert" => Len(procs[r]) = 1
           /\ \A i \in 1..Len(procs[r]) :
                 /\ SubSeq(procs[r][i].argv, 1, 4) =
                       <<"plastimatch", "convert", ToStr(pth_input), ToStr(pth_output)>>
                 /\ IF Supplied(xf)
                    THEN SubSeq(procs[r][i].argv, 5, Len(procs[r][i].argv)) = <<"--xf", ToStr(xf)>>
                    ELSE Len(procs[r][i].argv) = 4
                 /\ (procs[r][i].status = "exited" /\ procs[r][i].code # 0) => pc[r] # "raised"
           /\ pc[r] = "returned" =>
                 Len(printed[r]) = IF procs[r][1].code # 0 THEN 1 ELSE 0

C9_Witness ==
    /\ req[1].entry = "convert" /\ pc[1] = "returned"
    /\ Supplied(req[1].args[3])
    /\ procs[1][1].code = 1
    /\ Len(printed[1]) = 1

===========================================================================
